---- MODULE Spec2Model ----
(***************************************************************************)
(* Model of dataset_tools.py: the InReDDDataset index over images/ and     *)
(* annotations/, the DatasetStats aggregator, and describe(), the single   *)
(* pass that feeds one into the other.                                     *)
(*                                                                         *)
(* File names and sample identifiers are sequences of one-character        *)
(* strings, so that the glob match, Path.stem and the lexicographic sort   *)
(* are computed character by character.  Tooth ids, condition names and    *)
(* image statuses are TLA+ strings.                                        *)
(***************************************************************************)
EXTENDS Integers, Sequences, FiniteSets, TLC

VARIABLES
    fs,          \* entries below <root>/images: records [dir, name]
    ann,         \* <root>/annotations: identifier -> content of <id>.json
    ds,          \* the InReDDDataset object (NoDs before construction)
    acc,         \* the DatasetStats object
    pc,          \* position of the running caller
    caller,      \* "describe", "client" (InReDDDataset + iter_annotations) or "stats"
    i,           \* loop variable of iter_annotations
    out,         \* snapshot last returned by summary() / describe()
    err,         \* exception that reached the caller ("" when none)
    fed,         \* history: the records passed to update, in call order
    yielded,     \* history: the records yielded by iter_annotations
    reads,       \* history: identifiers whose annotation file was looked up
    imageLoads,  \* history: number of image lookups made by __getitem__
    fsChanges,   \* history: number of files removed since construction
    calls        \* history: summary() calls since the last update

vars == <<fs, ann, ds, acc, pc, caller, i, out, err, fed, yielded, reads,
          imageLoads, fsChanges, calls>>

----------------------------------------------------------------------------
(* Bounds of the model. *)

MaxFiles == 3

MaxUpdates == 3

MaxSummaryCalls == 2

MaxFsChanges == 1

----------------------------------------------------------------------------
(* Characters and strings-as-sequences. *)

\* Code point of a character (Python compares str by code point).
Ord(c) ==
    CASE c = "." -> 46
      [] c = "a" -> 97
      [] c = "b" -> 98
      [] c = "e" -> 101
      [] c = "g" -> 103
      [] c = "j" -> 106
      [] c = "n" -> 110
      [] c = "p" -> 112
      [] c = "t" -> 116
      [] c = "x" -> 120

\* s < t for Python str: first differing character decides, a proper prefix is smaller.
RECURSIVE LexLess(_, _)
LexLess(s, t) ==
    IF t = <<>> THEN FALSE
    ELSE IF s = <<>> THEN TRUE
    ELSE IF Ord(Head(s)) < Ord(Head(t)) THEN TRUE
    ELSE IF Ord(Head(s)) > Ord(Head(t)) THEN FALSE
    ELSE LexLess(Tail(s), Tail(t))

\* str.endswith / the fnmatch pattern "*<ext>" on a file name.
EndsWith(name, ext) ==
    /\ Len(name) >= Len(ext)
    /\ SubSeq(name, Len(name) - Len(ext) + 1, Len(name)) = ext

\* str.rfind(c), 1-based; 0 when c does not occur.
RFind(name, c) ==
    LET idx == {k \in 1..Len(name) : name[k] = c}
    IN  IF idx = {} THEN 0 ELSE CHOOSE k \in idx : \A m \in idx : m <= k

\* PurePath.stem: the final component without its last suffix; a leading or
\* trailing dot is no suffix separator.
stem(name) ==
    LET p == RFind(name, ".")
    IN  IF 1 < p /\ p < Len(name) THEN SubSeq(name, 1, p - 1) ELSE name

\* All orders in which a finite set can be enumerated.
Perms(S) ==
    {f \in [1..Cardinality(S) -> S] : \A a, b \in 1..Cardinality(S) : f[a] = f[b] => a = b}

\* The insertion step of sorted().
RECURSIVE Insert(_, _)
Insert(x, xs) ==
    IF xs = <<>> THEN <<x>>
    ELSE IF LexLess(Head(xs), x) THEN <<Head(xs)>> \o Insert(x, Tail(xs))
    ELSE <<x>> \o xs

sorted_identity(xs) == xs

\* sorted(iterable) on strings: ascending by LexLess.
RECURSIVE sorted(_)
sorted(xs) ==
    IF xs = <<>> THEN <<>> ELSE Insert(Head(xs), sorted(Tail(xs)))

----------------------------------------------------------------------------
(* Annotation data. *)

\* A JSON value of an optional field: absent, null, a number or a string.
Absent == [t |-> "absent", n |-> 0, s |-> ""]
Null == [t |-> "null", n |-> 0, s |-> ""]
Num(k) == [t |-> "int", n |-> k, s |-> ""]
Str(x) == [t |-> "str", n |-> 0, s |-> x]

NoConditions == [present |-> FALSE, items |-> <<>>]
Conditions(items) == [present |-> TRUE, items |-> items]

Object(tid, conds, status) ==
    [tooth_id |-> tid, conditions |-> conds, image_status |-> status]

NoObject == Object(Absent, NoConditions, Absent)

\* The two shapes of an annotation record: one object, or an array of objects.
Single(o) == [kind |-> "object", obj |-> o, items |-> <<>>]
Array(os) == [kind |-> "array", obj |-> NoObject, items |-> os]

ObjA == Object(Str("11"), Conditions(<<[k |-> "caries", v |-> TRUE]>>), Absent)
ObjB == Object(Num(11), Conditions(<<[k |-> "caries", v |-> FALSE], [k |-> "crown", v |-> TRUE]>>), Str("poor"))
ObjC == Object(Absent, NoConditions, Str(""))
ObjD == Object(Null, Conditions(<<>>), Str("good"))
ObjE == Object(Num(0), NoConditions, Absent)
ObjF == Object(Str(""), Conditions(<<[k |-> "crown", v |-> TRUE]>>), Str("poor"))

\* Records fed to the aggregator on its own.
Records ==
    {Single(ObjA), Single(ObjD), Array(<<>>), Array(<<ObjA, ObjB>>),
     Array(<<ObjC>>), Array(<<ObjE, ObjF, ObjB>>)}

\* Records found in annotation files during a pass.
AnnRecords == {Single(ObjA), Array(<<ObjB, ObjE>>)}

\* Content of annotations/<id>.json: no such file, not JSON, or a record.
FileAbsent == [st |-> "absent", rec |-> Array(<<>>)]
FileInvalid == [st |-> "invalid", rec |-> Array(<<>>)]
FileOk(r) == [st |-> "ok", rec |-> r]
AnnContents == {FileAbsent, FileInvalid} \cup {FileOk(r) : r \in AnnRecords}

----------------------------------------------------------------------------
(* The images/ tree. *)

IMG_EXTS == << <<".", "p", "n", "g">>, <<".", "j", "p", "g">>, <<".", "j", "p", "e", "g">> >>

Names ==
    { <<"a", ".", "p", "n", "g">>,
      <<"a", ".", "j", "p", "g">>,
      <<"a", "b", ".", "j", "p", "e", "g">>,
      <<"a", ".", "b", ".", "p", "n", "g">>,
      <<"n", ".", "t", "x", "t">> }

\* "" is images/ itself, "x" a subdirectory of it.
Dirs == {"", "x"}

Entries == [dir : Dirs, name : Names]

\* Path.rglob("*<ext>") when recursive, Path.glob("*<ext>") otherwise.
globber(fsv, recursive, ext) ==
    {p \in fsv : (recursive \/ p.dir = "") /\ EndsWith(p.name, ext)}

\* {p.stem for ext in IMG_EXTS for p in globber(ext)}
stems(fsv, recursive) ==
    {stem(p.name) : p \in UNION {globber(fsv, recursive, IMG_EXTS[k]) : k \in 1..Len(IMG_EXTS)}}

NoDs == [ok |-> FALSE, ids |-> <<>>, load_images |-> FALSE, recursive |-> FALSE]

InReDDDataset_init_nocheck(order, load_images, recursive) ==
    [err |-> "",
     obj |-> [ok |-> TRUE, ids |-> sorted(order), load_images |-> load_images,
              recursive |-> recursive]]

\* InReDDDataset.__init__; order is the order in which the set of stems is
\* handed to sorted().
InReDDDataset_init(order, load_images, recursive) ==
    LET ids == sorted(order)
    IN  IF ids = <<>>
        THEN [err |-> "FileNotFoundError:images", obj |-> NoDs]
        ELSE [err |-> "",
              obj |-> [ok |-> TRUE, ids |-> ids, load_images |-> load_images,
                       recursive |-> recursive]]

\* The image search of __getitem__: some entry named <id><ext>, at any depth.
ImageFound(fsv, img_id) ==
    \E k \in 1..Len(IMG_EXTS) : \E p \in fsv : p.name = img_id \o IMG_EXTS[k]

getitem_skip_bad(dsv, fsv, annv, idx) ==
    LET img_id == dsv.ids[idx]
        file == annv[img_id]
    IN  IF file.st /= "ok"
        THEN [err |-> "", target |-> Array(<<>>), lookups |-> 0]
        ELSE [err |-> "", target |-> file.rec, lookups |-> 0]

\* InReDDDataset.__getitem__ (transforms is None): the annotation is read
\* first, the image is searched only when load_images is set.
getitem(dsv, fsv, annv, idx) ==
    LET img_id == dsv.ids[idx]
        file == annv[img_id]
    IN  IF file.st = "absent"
        THEN [err |-> "FileNotFoundError:annotation", target |-> Array(<<>>), lookups |-> 0]
        ELSE IF file.st = "invalid"
        THEN [err |-> "JSONDecodeError", target |-> Array(<<>>), lookups |-> 0]
        ELSE IF dsv.load_images
        THEN IF ImageFound(fsv, img_id)
             THEN [err |-> "", target |-> file.rec, lookups |-> 1]
             ELSE [err |-> "FileNotFoundError:image", target |-> Array(<<>>), lookups |-> 1]
        ELSE [err |-> "", target |-> file.rec, lookups |-> 0]

iter_annotations_next_first(dsv, fsv, annv, k) ==
    IF k < Len(dsv.ids)
    THEN [done |-> FALSE, item |-> getitem(dsv, fsv, annv, 1)]
    ELSE [done |-> TRUE, item |-> [err |-> "", target |-> Array(<<>>), lookups |-> 0]]

\* One step of the generator iter_annotations, k items already yielded:
\* for i in range(len(self)): yield self[i][1]   (idx is 1-based here).
iter_annotations_next(dsv, fsv, annv, k) ==
    IF k < Len(dsv.ids)
    THEN [done |-> FALSE, item |-> getitem(dsv, fsv, annv, k + 1)]
    ELSE [done |-> TRUE, item |-> [err |-> "", target |-> Array(<<>>), lookups |-> 0]]

----------------------------------------------------------------------------
(* DatasetStats. *)

\* A collections.Counter: the keys in insertion order, each with its count.
EmptyCounter == <<>>

\* Counter[key]: 0 for a key never counted.
RECURSIVE Count(_, _)
Count(cnt, key) ==
    IF cnt = <<>> THEN 0
    ELSE IF Head(cnt).k = key THEN Head(cnt).c
    ELSE Count(Tail(cnt), key)

\* Counter.update([key]).
RECURSIVE Incr(_, _)
Incr(cnt, key) ==
    IF cnt = <<>> THEN <<[k |-> key, c |-> 1]>>
    ELSE IF Head(cnt).k = key THEN <<[k |-> key, c |-> Head(cnt).c + 1]>> \o Tail(cnt)
    ELSE <<Head(cnt)>> \o Incr(Tail(cnt), key)

\* Counter.update(keys) for a list of keys.
RECURSIVE CounterUpdate(_, _)
CounterUpdate(cnt, keys) ==
    IF keys = <<>> THEN cnt ELSE CounterUpdate(Incr(cnt, Head(keys)), Tail(keys))

\* Counter == Counter: the same keys with the same counts, in any order.
CounterEq(c1, c2) ==
    {c1[k] : k \in 1..Len(c1)} = {c2[k] : k \in 1..Len(c2)}

\* dict.get(key): None for a missing key.
get(v) == IF v.t = "absent" THEN Null ELSE v

\* Truth value of a JSON value.
truthy(v) == (v.t = "int" /\ v.n /= 0) \/ (v.t = "str" /\ v.s /= "")

\* str(value) of a number or string.
str(v) == IF v.t = "int" THEN ToString(v.n) ELSE IF v.t = "str" THEN v.s ELSE "None"

\* [c for c, v in obj.get("conditions", {}).items() if v]
RECURSIVE TrueConditions(_)
TrueConditions(items) ==
    IF items = <<>> THEN <<>>
    ELSE (IF Head(items).v THEN <<Head(items).k>> ELSE <<>>) \o TrueConditions(Tail(items))

\* DatasetStats.__init__
DatasetStats_init ==
    [image_status |-> EmptyCounter, conditions |-> EmptyCounter, tooth_ids |-> EmptyCounter,
     n_boxes_total |-> 0, boxes_per_image |-> <<>>]

objs_of_nowrap(a) == a.items

\* objs = ann if isinstance(ann, Sequence) else [ann]
objs_of(a) == IF a.kind = "array" THEN a.items ELSE <<a.obj>>

is_truthy(v) == truthy(v)

\* "is not None", the test on obj.get("tooth_id").
is_not_none(v) == v.t /= "null"

\* The body of the loop "for obj in objs" of update.
update_obj(st, obj) ==
    LET tid == get(obj.tooth_id)
        status == get(obj.image_status)
        t1 == IF is_not_none(tid) THEN Incr(st.tooth_ids, str(tid)) ELSE st.tooth_ids
        c1 == CounterUpdate(st.conditions, TrueConditions(obj.conditions.items))
        s1 == IF truthy(status) THEN Incr(st.image_status, status.s) ELSE st.image_status
    IN  [st EXCEPT !.tooth_ids = t1, !.conditions = c1, !.image_status = s1]

RECURSIVE update_objs(_, _)
update_objs(st, objs) ==
    IF objs = <<>> THEN st ELSE update_objs(update_obj(st, Head(objs)), Tail(objs))

\* DatasetStats.update
update(st, a) ==
    LET objs == objs_of(a)
        st1 == [st EXCEPT !.boxes_per_image = Append(@, Len(objs)),
                          !.n_boxes_total = @ + Len(objs)]
    IN  update_objs(st1, objs)

RECURSIVE Sum(_)
Sum(xs) == IF xs = <<>> THEN 0 ELSE Head(xs) + Sum(Tail(xs))

\* sorted(data) on integers, as statistics.median uses it.
RECURSIVE InsertInt(_, _)
InsertInt(x, xs) ==
    IF xs = <<>> THEN <<x>>
    ELSE IF Head(xs) < x THEN <<Head(xs)>> \o InsertInt(x, Tail(xs))
    ELSE <<x>> \o xs

RECURSIVE SortInts(_)
SortInts(xs) == IF xs = <<>> THEN <<>> ELSE InsertInt(Head(xs), SortInts(Tail(xs)))

\* round(statistics.mean(data), 2) in hundredths; statistics.mean sums exactly,
\* round() rounds half to even.
mean100(data) ==
    LET n == Len(data)
        q == (100 * Sum(data)) \div n
        r == (100 * Sum(data)) % n
    IN  IF 2 * r < n THEN q
        ELSE IF 2 * r > n THEN q + 1
        ELSE IF q % 2 = 0 THEN q ELSE q + 1

median2_unsorted(data) ==
    LET n == Len(data)
    IN  IF n % 2 = 1 THEN 2 * data[(n + 1) \div 2]
        ELSE data[n \div 2] + data[n \div 2 + 1]

\* statistics.median(data) in halves: the middle element, or the average of
\* the two middle elements of the sorted data.
median2(data) ==
    LET n == Len(data)
        xs == SortInts(data)
    IN  IF n % 2 = 1 THEN 2 * xs[(n + 1) \div 2]
        ELSE xs[n \div 2] + xs[n \div 2 + 1]

min(data) == CHOOSE x \in {data[k] : k \in 1..Len(data)} : \A k \in 1..Len(data) : x <= data[k]
max(data) == CHOOSE x \in {data[k] : k \in 1..Len(data)} : \A k \in 1..Len(data) : x >= data[k]

Snapshot(st, images, boxes, mean, median, lo, hi) ==
    [st |-> st, images |-> images, boxes |-> boxes, mean |-> mean, median |-> median,
     min |-> lo, max |-> hi]

NoOut == Snapshot("none", 0, 0, 0, 0, 0, 0)

summary_zero_filled(st) ==
    IF st.boxes_per_image = <<>>
    THEN Snapshot("ok", 0, st.n_boxes_total, 0, 0, 0, 0)
    ELSE Snapshot("ok", Len(st.boxes_per_image), st.n_boxes_total,
                  mean100(st.boxes_per_image), median2(st.boxes_per_image),
                  min(st.boxes_per_image), max(st.boxes_per_image))

\* DatasetStats.summary: statistics.mean raises StatisticsError on an empty
\* history before any other entry is computed.
summary(st) ==
    IF st.boxes_per_image = <<>>
    THEN Snapshot("StatisticsError", 0, 0, 0, 0, 0, 0)
    ELSE Snapshot("ok", Len(st.boxes_per_image), st.n_boxes_total,
                  mean100(st.boxes_per_image), median2(st.boxes_per_image),
                  min(st.boxes_per_image), max(st.boxes_per_image))

summary_effect_sorts(st) == [st EXCEPT !.boxes_per_image = SortInts(@)]

\* The aggregator after summary(): summary assigns no field.
summary_effect(st) == st

----------------------------------------------------------------------------
(* A pass over a dataset root: describe(), or a client that builds an      *)
(* InReDDDataset with flags of its choice and drains iter_annotations().   *)

Init ==
    /\ fs \in {S \in SUBSET Entries : Cardinality(S) <= MaxFiles}
    /\ ann \in [stems(fs, TRUE) -> AnnContents]
    /\ ds = NoDs
    /\ acc = DatasetStats_init
    /\ pc = "idle"
    /\ caller = "none"
    /\ i = 0
    /\ out = NoOut
    /\ err = ""
    /\ fed = <<>>
    /\ yielded = <<>>
    /\ reads = <<>>
    /\ imageLoads = 0
    /\ fsChanges = 0
    /\ calls = 0

\* The constructor call shared by both callers.
Construct(who, load_images, recursive) ==
    \E order \in Perms(stems(fs, recursive)) :
        LET r == InReDDDataset_init(order, load_images, recursive)
        IN  /\ caller' = who
            /\ ds' = r.obj
            /\ err' = r.err
            /\ pc' = IF r.err = "" THEN "loop" ELSE "raised"
            /\ acc' = DatasetStats_init
            /\ i' = 0
            /\ UNCHANGED <<fs, ann, out, fed, yielded, reads, imageLoads, fsChanges, calls>>

\* describe: ds = InReDDDataset(root, load_images=False); acc = DatasetStats()
describe_begin ==
    /\ pc = "idle"
    /\ Construct("describe", FALSE, TRUE)

\* A client: InReDDDataset(root, load_images=..., recursive=...)
client_begin ==
    /\ pc = "idle"
    /\ \E load_images \in BOOLEAN, recursive \in BOOLEAN :
           Construct("client", load_images, recursive)

\* describe: one turn of "for ann in iterator: acc.update(ann)", or the end of
\* the loop when the generator is exhausted.
describe_loop ==
    /\ pc = "loop"
    /\ caller = "describe"
    /\ LET step == iter_annotations_next(ds, fs, ann, i)
       IN  IF step.done
           THEN /\ pc' = "summary"
                /\ UNCHANGED <<acc, i, err, fed, yielded, reads, imageLoads>>
           ELSE /\ reads' = Append(reads, ds.ids[i + 1])
                /\ imageLoads' = imageLoads + step.item.lookups
                /\ IF step.item.err /= ""
                   THEN /\ pc' = "raised"
                        /\ err' = step.item.err
                        /\ UNCHANGED <<acc, i, fed, yielded>>
                   ELSE /\ yielded' = Append(yielded, step.item.target)
                        /\ acc' = update(acc, step.item.target)
                        /\ fed' = Append(fed, step.item.target)
                        /\ i' = i + 1
                        /\ UNCHANGED <<pc, err>>
    /\ UNCHANGED <<fs, ann, ds, caller, out, fsChanges, calls>>

\* describe: out = acc.summary(); the counters of acc are attached; return out
describe_return ==
    /\ pc = "summary"
    /\ LET snap == summary(acc)
       IN  IF snap.st = "ok"
           THEN /\ out' = snap
                /\ pc' = "returned"
                /\ err' = err
           ELSE /\ out' = out
                /\ pc' = "raised"
                /\ err' = snap.st
    /\ acc' = summary_effect(acc)
    /\ calls' = calls + 1
    /\ UNCHANGED <<fs, ann, ds, caller, i, fed, yielded, reads, imageLoads, fsChanges>>

\* A client draining ds.iter_annotations(): one next() on the generator.
client_next ==
    /\ pc = "loop"
    /\ caller = "client"
    /\ LET step == iter_annotations_next(ds, fs, ann, i)
       IN  IF step.done
           THEN /\ pc' = "done"
                /\ UNCHANGED <<i, err, yielded, reads, imageLoads>>
           ELSE /\ reads' = Append(reads, ds.ids[i + 1])
                /\ imageLoads' = imageLoads + step.item.lookups
                /\ IF step.item.err /= ""
                   THEN /\ pc' = "raised"
                        /\ err' = step.item.err
                        /\ UNCHANGED <<i, yielded>>
                   ELSE /\ yielded' = Append(yielded, step.item.target)
                        /\ i' = i + 1
                        /\ UNCHANGED <<pc, err>>
    /\ UNCHANGED <<fs, ann, ds, acc, caller, out, fed, fsChanges, calls>>

\* The environment: an image file disappears after the index was built.
fs_remove ==
    /\ pc = "loop"
    /\ fsChanges < MaxFsChanges
    /\ \E p \in fs : fs' = fs \ {p}
    /\ fsChanges' = fsChanges + 1
    /\ UNCHANGED <<ann, ds, acc, pc, caller, i, out, err, fed, yielded, reads, imageLoads, calls>>

Next ==
    \/ describe_begin
    \/ client_begin
    \/ describe_loop
    \/ describe_return
    \/ client_next
    \/ fs_remove

Spec == Init /\ [][Next]_vars

----------------------------------------------------------------------------
(* The aggregator on its own: any sequence of update and summary calls.    *)

InitStats ==
    /\ fs = {}
    /\ ann = <<>>
    /\ ds = NoDs
    /\ acc = DatasetStats_init
    /\ pc = "stats"
    /\ caller = "stats"
    /\ i = 0
    /\ out = NoOut
    /\ err = ""
    /\ fed = <<>>
    /\ yielded = <<>>
    /\ reads = <<>>
    /\ imageLoads = 0
    /\ fsChanges = 0
    /\ calls = 0

\* acc.update(record)
DatasetStats_update ==
    /\ Len(fed) < MaxUpdates
    /\ \E r \in Records :
           /\ acc' = update(acc, r)
           /\ fed' = Append(fed, r)
    /\ calls' = 0
    /\ out' = NoOut
    /\ err' = ""
    /\ UNCHANGED <<fs, ann, ds, pc, caller, i, yielded, reads, imageLoads, fsChanges>>

\* acc.summary()
DatasetStats_summary ==
    /\ calls < MaxSummaryCalls
    /\ LET snap == summary(acc)
       IN  /\ out' = snap
           /\ err' = IF snap.st = "ok" THEN "" ELSE snap.st
    /\ acc' = summary_effect(acc)
    /\ calls' = calls + 1
    /\ UNCHANGED <<fs, ann, ds, pc, caller, i, fed, yielded, reads, imageLoads, fsChanges>>

NextStats ==
    \/ DatasetStats_update
    \/ DatasetStats_summary

SpecStats == InitStats /\ [][NextStats]_vars

----------------------------------------------------------------------------
(* Properties. *)

\* Vocabulary of the properties, stated apart from the operators above.
HasAllowedExt(name) == \E k \in 1..Len(IMG_EXTS) : EndsWith(name, IMG_EXTS[k])

AllowedStemsBelow == {stem(p.name) : p \in {q \in fs : HasAllowedExt(q.name)}}

AllowedStemsScanned ==
    {stem(p.name) : p \in {q \in fs : HasAllowedExt(q.name) /\ (ds.recursive \/ q.dir = "")}}

StrictlySorted(ids) == \A k \in 1..(Len(ids) - 1) : LexLess(ids[k], ids[k + 1])

Range(xs) == {xs[k] : k \in 1..Len(xs)}

\* The object count of a record: 1 for a single object, the length of an array.
ObjectCount(r) == IF r.kind = "object" THEN 1 ELSE Len(r.items)

RecordObjects(r) == IF r.kind = "object" THEN <<r.obj>> ELSE r.items

RECURSIVE AllObjects(_)
AllObjects(recs) ==
    IF recs = <<>> THEN <<>> ELSE RecordObjects(Head(recs)) \o AllObjects(Tail(recs))

RECURSIVE FoldUpdate(_, _)
FoldUpdate(st, recs) ==
    IF recs = <<>> THEN st ELSE FoldUpdate(update(st, Head(recs)), Tail(recs))

\* Decimal form of the tooth ids that occur in the records.
IdText(v) == IF v.t = "str" THEN v.s ELSE IF v.n = 11 THEN "11" ELSE IF v.n = 0 THEN "0" ELSE "?"

ToothKeys == {"11", "0", "", "None", "?"}

\* C1 (as stated): once the index is built, its identifier list is strictly
\* sorted and as long as the number of distinct stems among all files with an
\* allowed extension below images/.
C1_AsStated ==
    (ds.ok /\ fsChanges = 0) =>
        /\ Len(ds.ids) = Cardinality(AllowedStemsBelow)
        /\ StrictlySorted(ds.ids)

\* C1 (amended): once the index is built, its identifier list is strictly
\* sorted, free of duplicates, and holds exactly the distinct stems of the
\* entries with an allowed extension that the scan visits: all of them below
\* images/ in recursive mode, those directly in images/ otherwise.
C1_IdsSortedDistinctScanned ==
    (ds.ok /\ fsChanges = 0) =>
        /\ Len(ds.ids) = Cardinality(AllowedStemsScanned)
        /\ Range(ds.ids) = AllowedStemsScanned
        /\ StrictlySorted(ds.ids)
        /\ \A a, b \in 1..Len(ds.ids) : ds.ids[a] = ds.ids[b] => a = b

\* An index of several identifiers built from a tree where one stem occurs twice.
C1_Witness ==
    /\ ds.ok
    /\ fsChanges = 0
    /\ Len(ds.ids) >= 2
    /\ \E p, q \in fs : p /= q /\ HasAllowedExt(p.name) /\ HasAllowedExt(q.name)
                          /\ stem(p.name) = stem(q.name)

\* C2: a root without any file of an allowed extension below images/ makes the
\* constructor raise FileNotFoundError before any access, and every index that
\* exists has a non-empty identifier list.
C2_EmptyFailsAtConstruction ==
    /\ (caller /= "none" /\ caller /= "stats" /\ AllowedStemsBelow = {} /\ fsChanges = 0) =>
           (~ds.ok /\ pc = "raised" /\ err = "FileNotFoundError:images" /\ reads = <<>>)
    /\ ds.ok => Len(ds.ids) > 0
    /\ (pc \in {"loop", "summary", "returned", "done"}) => ds.ok

\* A constructor call that raised over a tree holding only other files.
C2_Witness ==
    /\ pc = "raised"
    /\ err = "FileNotFoundError:images"
    /\ fs /= {}
    /\ AllowedStemsBelow = {}

\* C3: in describe, update is called with the records of the identifiers in
\* index order, one each; when describe returns, every identifier was consumed
\* exactly once and the images count is the length of the identifier list.
C3_OneUpdatePerIdInOrder ==
    (caller = "describe" /\ ds.ok) =>
        /\ Len(fed) <= Len(ds.ids)
        /\ \A k \in 1..Len(fed) : fed[k] = ann[ds.ids[k]].rec /\ ann[ds.ids[k]].st = "ok"
        /\ Len(acc.boxes_per_image) = Len(fed)
        /\ (pc = "returned") =>
               /\ Len(fed) = Len(ds.ids)
               /\ reads = ds.ids
               /\ out.st = "ok"
               /\ out.images = Len(ds.ids)

\* describe returned over three identifiers whose records differ.
C3_Witness ==
    /\ caller = "describe"
    /\ pc = "returned"
    /\ Len(ds.ids) = 3
    /\ fed[1] /= fed[2]

\* C4: when describe ends with a missing or invalid annotation file, nothing
\* is returned, the statistics are those of the records before the bad one,
\* the bad file is the last one looked up, and a pass never returns over a bad
\* annotation file.
C4_BadRecordAborts ==
    /\ (caller = "describe" /\ pc = "raised"
          /\ err \in {"FileNotFoundError:annotation", "JSONDecodeError"}) =>
           LET k == Len(fed) + 1
           IN  /\ k <= Len(ds.ids)
               /\ ann[ds.ids[k]].st = (IF err = "JSONDecodeError" THEN "invalid" ELSE "absent")
               /\ out = NoOut
               /\ calls = 0
               /\ reads = SubSeq(ds.ids, 1, k)
               /\ fed = [m \in 1..(k - 1) |-> ann[ds.ids[m]].rec]
               /\ acc = FoldUpdate(DatasetStats_init, fed)
    /\ (caller = "describe" /\ pc \in {"summary", "returned"}) =>
           \A k \in 1..Len(ds.ids) : ann[ds.ids[k]].st = "ok"

\* describe aborted on the second identifier after consuming the first.
C4_Witness ==
    /\ caller = "describe"
    /\ pc = "raised"
    /\ err = "JSONDecodeError"
    /\ Len(fed) = 1
    /\ Len(ds.ids) = 3

\* C5 (as stated): draining iter_annotations makes no image lookup and never
\* ends with the FileNotFoundError of a missing image, whatever the flag.
C5_NeverLoadsImage ==
    /\ imageLoads = 0
    /\ err /= "FileNotFoundError:image"

\* C6: a summary() call leaves every field of the statistics unchanged, and a
\* call that follows another with no update between returns the same snapshot.
C6_SummaryReadOnly ==
    [][(calls' = calls + 1) =>
          /\ acc' = acc
          /\ (calls >= 1 => out' = out)]_vars

\* Two summary() calls in a row after updates with unsorted box counts.
C6_Witness ==
    /\ calls = 2
    /\ out.st = "ok"
    /\ Len(fed) >= 2
    /\ acc.boxes_per_image[1] > acc.boxes_per_image[2]

\* C7: the statistics reached by the updates made so far equal, counter by
\* counter and aggregate by aggregate, those reached by the same records fed
\* in any other order.
C7_OrderIndependent ==
    \A p \in Perms(1..Len(fed)) :
        LET other == FoldUpdate(DatasetStats_init, [k \in 1..Len(fed) |-> fed[p[k]]])
        IN  /\ CounterEq(other.image_status, acc.image_status)
            /\ CounterEq(other.conditions, acc.conditions)
            /\ CounterEq(other.tooth_ids, acc.tooth_ids)
            /\ summary(other) = summary(acc)

\* Three updates with records of different sizes, so that orders differ.
C7_Witness ==
    /\ Len(fed) = 3
    /\ acc.boxes_per_image[1] > acc.boxes_per_image[2]
    /\ acc.boxes_per_image[2] < acc.boxes_per_image[3]
    /\ acc.boxes_per_image[1] /= acc.boxes_per_image[3]

\* C8: summary() before any update raises and returns no snapshot.
C8_EmptySummaryFails ==
    (calls > 0 /\ fed = <<>>) =>
        /\ out.st = "StatisticsError"
        /\ err = "StatisticsError"

\* summary() was called on a fresh aggregator.
C8_Witness ==
    /\ caller = "stats"
    /\ calls > 0
    /\ fed = <<>>

\* C9: the box-count history holds the object count of each record fed, in
\* call order; summary reports images as the number of updates and boxes as
\* the sum of the history; with single-object records only, boxes = images.
C9_ImagesAndBoxes ==
    /\ Len(acc.boxes_per_image) = Len(fed)
    /\ \A k \in 1..Len(fed) : acc.boxes_per_image[k] = ObjectCount(fed[k])
    /\ (calls > 0 /\ fed /= <<>>) =>
           /\ out.st = "ok"
           /\ out.images = Len(fed)
           /\ out.boxes = Sum(acc.boxes_per_image)
           /\ (\A k \in 1..Len(fed) : fed[k].kind = "object") =>
                  /\ out.boxes = out.images
                  /\ \A k \in 1..Len(fed) : acc.boxes_per_image[k] = 1

\* summary() after two updates that were single objects, not arrays.
C9_Witness ==
    /\ calls > 0
    /\ Len(fed) = 2
    /\ \A k \in 1..Len(fed) : fed[k].kind = "object"

\* C10 (as stated): each tooth-id count is the number of objects fed that
\* carry a tooth_id field, of whatever value, with that string form.
C10_AsStated ==
    \A key \in ToothKeys :
        Count(acc.tooth_ids, key) =
            Cardinality({k \in 1..Len(AllObjects(fed)) :
                LET o == AllObjects(fed)[k]
                IN  o.tooth_id.t /= "absent"
                    /\ (IF o.tooth_id.t = "null" THEN "None" ELSE IdText(o.tooth_id)) = key})

\* C10 (amended): each tooth-id count is the number of objects fed that carry
\* a tooth_id field with a value other than null (0 and the empty string
\* included) of that string form; objects without the field, or with null
\* in it, count nowhere.
C10_ToothIdCounts ==
    \A key \in ToothKeys :
        Count(acc.tooth_ids, key) =
            Cardinality({k \in 1..Len(AllObjects(fed)) :
                LET o == AllObjects(fed)[k]
                IN  o.tooth_id.t \in {"int", "str"} /\ IdText(o.tooth_id) = key})

\* Updates that fed a number 0, an empty string, the id 11 both as a number
\* and as a string, and an object with a null tooth_id.
C10_Witness ==
    /\ Count(acc.tooth_ids, "0") >= 1
    /\ Count(acc.tooth_ids, "") >= 1
    /\ Count(acc.tooth_ids, "11") >= 3
    /\ \E k \in 1..Len(fed) : fed[k] = Single(ObjD)

====
